---- MODULE Spec2Model ----
(***************************************************************************)
(* Model of the investment engine of RealEstateAnalyzer:                   *)
(* src/financial_calculator.py, class FinancialCalculator.                 *)
(*                                                                         *)
(* Python floats are modelled as exact rationals <<num, den>> (den > 0,    *)
(* lowest terms).  IEEE-754 rounding is not part of the model, so          *)
(* equalities below are equalities of the real-number results.             *)
(***************************************************************************)
EXTENDS Integers, Sequences, FiniteSets, TLC

(* ------------------------------------------------------------------ *)
(* Rational arithmetic (the float operators + - * / ** < <= ==)        *)
(* ------------------------------------------------------------------ *)
Abs(i) == IF i < 0 THEN -i ELSE i

RECURSIVE Gcd(_, _)
Gcd(a, b) == IF b = 0 THEN a ELSE Gcd(b, a % b)

Norm(n, d) ==
    LET s == IF d < 0 THEN -1 ELSE 1
        g == Gcd(Abs(n), Abs(d))
    IN  <<(s * n) \div g, (s * d) \div g>>

R(i) == <<i, 1>>

Zero == R(0)

RAdd(x, y) ==
    LET g == Gcd(x[2], y[2])
    IN  Norm(x[1] * (y[2] \div g) + y[1] * (x[2] \div g), (x[2] \div g) * y[2])

RNeg(x) == <<-x[1], x[2]>>

RSub(x, y) == RAdd(x, RNeg(y))

RMul(x, y) ==
    LET g1 == Gcd(Abs(x[1]), y[2])
        g2 == Gcd(Abs(y[1]), x[2])
    IN  Norm((x[1] \div g1) * (y[1] \div g2), (x[2] \div g2) * (y[2] \div g1))

\* x / y for y # 0 (Python raises ZeroDivisionError for y = 0; every
\* division modelled here has a divisor the code has checked or a literal).
RDiv(x, y) == RMul(x, Norm(y[2], y[1]))

RLt(x, y) ==
    LET g == Gcd(x[2], y[2])
    IN  x[1] * (y[2] \div g) < y[1] * (x[2] \div g)

RLe(x, y) == x = y \/ RLt(x, y)

RMin(x, y) == IF RLe(x, y) THEN x ELSE y

RMax(x, y) == IF RLe(y, x) THEN x ELSE y

\* Python evaluates a local variable when it is assigned.  The operators
\* below bind each local with Only({e(v) : v \in {value}}), which computes
\* the value once, before e uses it; the recursive ones split their range
\* in halves so that the evaluation stays shallow.
Only(S) == CHOOSE v \in S : TRUE

\* x ** k for an integer k >= 0
RECURSIVE RPow(_, _)
RPow(x, k) ==
    IF k = 0 THEN R(1)
    ELSE IF k = 1 THEN x
    ELSE Only({RMul(RMul(h, h), IF k % 2 = 1 THEN x ELSE R(1)) :
                 h \in {RPow(x, k \div 2)}})

\* s[lo] + ... + s[hi]
RECURSIVE RSumRange(_, _, _)
RSumRange(s, lo, hi) ==
    IF lo > hi THEN Zero
    ELSE IF lo = hi THEN s[lo]
    ELSE Only({RAdd(v[1], v[2]) :
                 v \in {<<RSumRange(s, lo, (lo + hi) \div 2),
                          RSumRange(s, (lo + hi) \div 2 + 1, hi)>>}})

RSum(s) == RSumRange(s, 1, Len(s))

(* ------------------------------------------------------------------ *)
(* State                                                               *)
(* ------------------------------------------------------------------ *)
VARIABLES
    args,   \* arguments of the FinancialCalculator(...) call, or NoArgs
    calc,   \* the engine instance the call produced, or NoInstance
    raised, \* the exception the call raised ("" when it returned)
    ret,    \* the engine operation the caller is holding the result of
    npf     \* the module's numpy_financial: "present", or "absent" (None)

vars == <<args, calc, raised, ret, npf>>

\* An optional argument is None or <<value>>
None == <<>>

NoInstance == [instance |-> "none"]

NoArgs == [call |-> "none"]

NoRet == [op |-> "none"]

(* ------------------------------------------------------------------ *)
(* Inputs                                                              *)
(* ------------------------------------------------------------------ *)
\* Largest number of periods a caller asks get_amortization_schedule for
\* beyond the loan's own length, and largest year asked of the per-year
\* getters.
ExtraPeriods == 1

MaxYear == 3

PropertyPrices == {0, 120}

DownPayments == {-30, 0, 30, 120, 150}

LoanTerms == {0, 1, 2}

\* annual percent: 1200 is a monthly rate of 1, 600 of 1/2
InterestRates == {-1, 0, 600, 1200}

MonthlyRents == {-40, 0, 40}

OccupancyRates == {-50, 50, 100, 150}

RentGrowths == {-100, 0, 100}

EnhancementCosts == {0, 10}

HoaFees == {0, 24}

HoldingPeriods == 0 .. MaxYear

ResaleValues == {None, <<0>>, <<150>>}

InterestTypes == {"absent", "apr", "simple"}

\* Default values of the keyword parameters of __init__
DefaultRentGrowth == 0

DefaultEnhancementCosts == 0

DefaultHoaFeesAnnual == 0

DefaultHoldingPeriod == 10

ArgRecord(pp, dp, lt, ir, mr, oc, rg, ec, hf, hp, rv, it) ==
    [call |-> "FinancialCalculator",
     property_price |-> pp, down_payment |-> dp, loan_term |-> lt,
     interest_rate |-> ir, base_monthly_rent |-> mr, occupancy_rate |-> oc,
     rent_growth |-> rg, enhancement_costs |-> ec, hoa_fees_annual |-> hf,
     holding_period |-> hp, resale_value |-> rv, interest_type |-> it]

\* The largest power (1 + monthly_rate) ** num_payments whose numerator the
\* model's integers hold together with the products the getters form.
PowLimit == 600000

RECURSIVE PowWithin(_, _, _)
PowWithin(a, k, lim) ==
    IF k = 0 THEN TRUE
    ELSE IF a > lim THEN FALSE
    ELSE PowWithin(a, k - 1, lim \div a)

\* The largest growth factor (1 + rent_growth/100) ** (holding_period - 1)
\* whose numerator the model's integers hold together with the sums and
\* ratios taken over the schedules.
GrowthLimit == 100

\* (1 + rate/1200) ** (12 * term) is a / b ** (12 * term) in lowest terms,
\* and (1 + growth/100) ** (holding_period - 1) likewise
Representable(a) ==
    /\ \/ a.loan_term <= 0
       \/ a.interest_rate <= 0
       \/ PowWithin(Norm(1200 + a.interest_rate, 1200)[1], a.loan_term * 12, PowLimit)
    /\ \/ a.rent_growth <= 0
       \/ a.holding_period <= 1
       \/ PowWithin(Norm(100 + a.rent_growth, 100)[1], a.holding_period - 1, GrowthLimit)

\* The constructor calls of the model: every combination of the seven
\* validated arguments with the keyword arguments left at their defaults;
\* the cost, fee and holding-period keywords on valid loans; the resale
\* values; and calls that pass an interest_type, as flask_app.py and the
\* tests do.
ValidationCalls ==
    {ArgRecord(pp, dp, lt, ir, mr, oc, rg, DefaultEnhancementCosts,
               DefaultHoaFeesAnnual, DefaultHoldingPeriod, None, "absent") :
        pp \in PropertyPrices, dp \in DownPayments, lt \in LoanTerms,
        ir \in InterestRates, mr \in MonthlyRents, oc \in OccupancyRates,
        rg \in RentGrowths}

KeywordCalls ==
    {ArgRecord(120, 30, 1, ir, 40, oc, rg, ec, hf, hp, None, "absent") :
        ir \in {0, 1200}, oc \in {50, 100}, rg \in {0, 100},
        ec \in EnhancementCosts, hf \in HoaFees, hp \in HoldingPeriods}

ResaleCalls ==
    {ArgRecord(120, 30, 1, ir, 40, 100, 100, 10, 24, hp, rv, "absent") :
        ir \in {0, 1200}, hp \in HoldingPeriods, rv \in ResaleValues}

\* enhancement_costs is not validated, and flask_app.py hands it over as
\* received: costs that cancel or exceed the down payment
CostCalls ==
    {ArgRecord(120, 30, 1, 0, 40, 100, rg, ec, 0, hp, None, "absent") :
        rg \in {0, 100}, ec \in {-40, -30}, hp \in HoldingPeriods}

\* test_rent_growth_escalates_cash_flow: a growth and a flat engine, here
\* also without rent or without occupancy
RentGrowthCalls ==
    {ArgRecord(120, 30, 1, 1200, mr, oc, rg, DefaultEnhancementCosts,
               DefaultHoaFeesAnnual, MaxYear, None, "absent") :
        mr \in {0, 40}, oc \in {0, 100}, rg \in {0, 50, 100}}

InterestTypeCalls ==
    {ArgRecord(pp, dp, lt, ir, 40, 100, DefaultRentGrowth, DefaultEnhancementCosts,
               DefaultHoaFeesAnnual, DefaultHoldingPeriod, None, it) :
        pp \in PropertyPrices, dp \in DownPayments, lt \in LoanTerms,
        ir \in InterestRates, it \in InterestTypes}

ConstructorCalls ==
    {a \in ValidationCalls \cup KeywordCalls \cup ResaleCalls \cup CostCalls
            \cup RentGrowthCalls \cup InterestTypeCalls :
        Representable(a)}

(* ------------------------------------------------------------------ *)
(* FinancialCalculator.__init__ and _validate_inputs                   *)
(* ------------------------------------------------------------------ *)
\* _validate_inputs without the upper bound on the down payment
ValidateInputs_NoUpperBound(self) ==
    IF RLe(self.property_price, Zero)
        THEN "Property price must be positive"
    ELSE IF RLt(self.down_payment, Zero)
        THEN "Down payment must be between 0 and property price"
    ELSE IF self.loan_term <= 0
        THEN "Loan term must be positive"
    ELSE IF RLt(self.interest_rate, Zero)
        THEN "Interest rate cannot be negative"
    ELSE IF RLt(self.base_monthly_rent, Zero)
        THEN "Monthly rent cannot be negative"
    ELSE IF ~(RLe(Zero, self.occupancy_rate) /\ RLe(self.occupancy_rate, R(100)))
        THEN "Occupancy rate must be between 0 and 100"
    ELSE IF RLt(self.rent_growth, Zero)
        THEN "Rent growth cannot be negative"
    ELSE ""

\* The message of the ValueError _validate_inputs raises, "" when it returns
ValidateInputs(self) ==
    IF RLe(self.property_price, Zero)
        THEN "Property price must be positive"
    ELSE IF RLt(self.down_payment, Zero) \/ RLt(self.property_price, self.down_payment)
        THEN "Down payment must be between 0 and property price"
    ELSE IF self.loan_term <= 0
        THEN "Loan term must be positive"
    ELSE IF RLt(self.interest_rate, Zero)
        THEN "Interest rate cannot be negative"
    ELSE IF RLt(self.base_monthly_rent, Zero)
        THEN "Monthly rent cannot be negative"
    ELSE IF ~(RLe(Zero, self.occupancy_rate) /\ RLe(self.occupancy_rate, R(100)))
        THEN "Occupancy rate must be between 0 and 100"
    ELSE IF RLt(self.rent_growth, Zero)
        THEN "Rent growth cannot be negative"
    ELSE ""

\* The attribute assignments of __init__
\* __init__ with the property price itself as the default resale value
InitFields_ResaleAtPrice(a) ==
    [property_price |-> R(a.property_price),
     down_payment |-> R(a.down_payment),
     loan_term |-> a.loan_term,
     interest_rate |-> R(a.interest_rate),
     base_monthly_rent |-> R(a.base_monthly_rent),
     occupancy_rate |-> R(a.occupancy_rate),
     rent_growth |-> R(a.rent_growth),
     enhancement_costs |-> R(a.enhancement_costs),
     hoa_fees_annual |-> R(a.hoa_fees_annual),
     holding_period |-> a.holding_period,
     resale_value |->
        IF a.resale_value = None \/ a.resale_value = <<0>>
        THEN R(a.property_price)
        ELSE R(a.resale_value[1])]

InitFields(a) ==
    [property_price |-> R(a.property_price),
     down_payment |-> R(a.down_payment),
     loan_term |-> a.loan_term,
     interest_rate |-> R(a.interest_rate),
     base_monthly_rent |-> R(a.base_monthly_rent),
     occupancy_rate |-> R(a.occupancy_rate),
     rent_growth |-> R(a.rent_growth),
     enhancement_costs |-> R(a.enhancement_costs),
     hoa_fees_annual |-> R(a.hoa_fees_annual),
     holding_period |-> a.holding_period,
     resale_value |->
        IF a.resale_value = None \/ a.resale_value = <<0>>
        THEN RMul(R(a.property_price), Norm(12, 10))
        ELSE R(a.resale_value[1])]

\* __init__ has no interest_type parameter: a call that passes one raises
\* TypeError before the body runs.
AcceptsKeywords(a) == a.interest_type = "absent"

Construct(a) ==
    /\ args = NoArgs
    /\ args' = a
    /\ ret' = NoRet
    /\ UNCHANGED npf
    /\ IF ~AcceptsKeywords(a)
       THEN /\ calc' = NoInstance
            /\ raised' = "TypeError: unexpected keyword argument 'interest_type'"
       ELSE LET self == InitFields(a)
                msg == ValidateInputs(self)
            IN  IF msg # ""
                THEN /\ calc' = NoInstance
                     /\ raised' = msg
                ELSE /\ calc' = self
                     /\ raised' = ""

(* ------------------------------------------------------------------ *)
(* Loan model                                                          *)
(* ------------------------------------------------------------------ *)
\* get_loan_amount with the operands exchanged
get_loan_amount_Swapped(self) == RSub(self.down_payment, self.property_price)

get_loan_amount(self) == RSub(self.property_price, self.down_payment)

\* get_monthly_payment dividing a zero-rate loan by the years, not the months
get_monthly_payment_PerYear(self) ==
    Only({IF RLe(loan_amount, Zero) THEN Zero
          ELSE IF monthly_rate = Zero THEN RDiv(loan_amount, R(self.loan_term))
          ELSE Only({RDiv(RMul(loan_amount, RMul(monthly_rate, power)),
                          RSub(power, R(1))) :
                       power \in {RPow(RAdd(R(1), monthly_rate), num_payments)}}) :
            loan_amount \in {get_loan_amount(self)},
            monthly_rate \in {RDiv(RDiv(self.interest_rate, R(100)), R(12))},
            num_payments \in {self.loan_term * 12}})

\* get_monthly_payment without the growth factor in the numerator
get_monthly_payment_NoGrowth(self) ==
    Only({IF RLe(loan_amount, Zero) THEN Zero
          ELSE IF monthly_rate = Zero THEN RDiv(loan_amount, R(num_payments))
          ELSE Only({RDiv(RMul(loan_amount, monthly_rate), RSub(power, R(1))) :
                       power \in {RPow(RAdd(R(1), monthly_rate), num_payments)}}) :
            loan_amount \in {get_loan_amount(self)},
            monthly_rate \in {RDiv(RDiv(self.interest_rate, R(100)), R(12))},
            num_payments \in {self.loan_term * 12}})

get_monthly_payment(self) ==
    Only({IF RLe(loan_amount, Zero) THEN Zero
          ELSE IF monthly_rate = Zero THEN RDiv(loan_amount, R(num_payments))
          ELSE Only({RDiv(RMul(loan_amount, RMul(monthly_rate, power)),
                          RSub(power, R(1))) :
                       power \in {RPow(RAdd(R(1), monthly_rate), num_payments)}}) :
            loan_amount \in {get_loan_amount(self)},
            monthly_rate \in {RDiv(RDiv(self.interest_rate, R(100)), R(12))},
            num_payments \in {self.loan_term * 12}})

\* get_total_interest counting one payment a year
get_total_interest_Yearly(self) ==
    Only({RSub(RMul(monthly_payment, R(self.loan_term)), loan_amount) :
            monthly_payment \in {get_monthly_payment(self)},
            loan_amount \in {get_loan_amount(self)}})

get_total_interest(self) ==
    Only({RSub(RMul(RMul(monthly_payment, R(self.loan_term)), R(12)), loan_amount) :
            monthly_payment \in {get_monthly_payment(self)},
            loan_amount \in {get_loan_amount(self)}})

get_total_payback_amount(self) ==
    Only({RMul(RMul(monthly_payment, R(self.loan_term)), R(12)) :
            monthly_payment \in {get_monthly_payment(self)}})

get_total_initial_investment(self) == RAdd(self.down_payment, self.enhancement_costs)

EmptySchedule ==
    [period |-> <<>>, payment |-> <<>>, principal |-> <<>>, interest |-> <<>>,
     balance |-> <<>>]

\* StoreValues numbering the periods from 0
StoreValues_ZeroBased(schedule, period, monthly_payment, principal_payment, interest_payment, remaining_balance) ==
    [period |-> Append(schedule.period, period - 1),
     payment |-> Append(schedule.payment, monthly_payment),
     principal |-> Append(schedule.principal, principal_payment),
     interest |-> Append(schedule.interest, interest_payment),
     balance |-> Append(schedule.balance, RMax(Zero, remaining_balance))]

\* One iteration of the loop of get_amortization_schedule: the schedule
\* with the period's values appended.
StoreValues(schedule, period, monthly_payment, principal_payment, interest_payment, remaining_balance) ==
    [period |-> Append(schedule.period, period),
     payment |-> Append(schedule.payment, monthly_payment),
     principal |-> Append(schedule.principal, principal_payment),
     interest |-> Append(schedule.interest, interest_payment),
     balance |-> Append(schedule.balance, RMax(Zero, remaining_balance))]

\* AmortizationStep adding the principal paid to the balance
AmortizationStep_AddsPrincipal(period, remaining_balance, schedule, monthly_payment, monthly_rate) ==
    Only({Only({Only({<<new_balance,
                        StoreValues(schedule, period, monthly_payment,
                                    principal_payment, interest_payment, new_balance)>> :
                        new_balance \in {RAdd(remaining_balance, principal_payment)}}) :
                  principal_payment \in
                      {RMin(RSub(monthly_payment, interest_payment), remaining_balance)}}) :
            interest_payment \in {RMul(remaining_balance, monthly_rate)}})

\* AmortizationStep paying the whole payment towards the principal
AmortizationStep_PrincipalIsPayment(period, remaining_balance, schedule, monthly_payment, monthly_rate) ==
    Only({Only({Only({<<new_balance,
                        StoreValues(schedule, period, monthly_payment,
                                    principal_payment, interest_payment, new_balance)>> :
                        new_balance \in {RSub(remaining_balance, principal_payment)}}) :
                  principal_payment \in {RMin(monthly_payment, remaining_balance)}}) :
            interest_payment \in {RMul(remaining_balance, monthly_rate)}})

\* The body of the loop for one period:
\* <<remaining_balance, schedule>> after it.
AmortizationStep(period, remaining_balance, schedule, monthly_payment, monthly_rate) ==
    Only({Only({Only({<<new_balance,
                        StoreValues(schedule, period, monthly_payment,
                                    principal_payment, interest_payment, new_balance)>> :
                        new_balance \in {RSub(remaining_balance, principal_payment)}}) :
                  principal_payment \in
                      {RMin(RSub(monthly_payment, interest_payment), remaining_balance)}}) :
            interest_payment \in {RMul(remaining_balance, monthly_rate)}})

\* for period in range(start, stop): ... on st = <<remaining_balance, schedule>>.
\* The break at remaining_balance <= 0 leaves every later period undone, as
\* skipping each of them does: a skipped period changes neither value.
RECURSIVE AmortizationLoop(_, _, _, _, _)
AmortizationLoop(start, stop, st, monthly_payment, monthly_rate) ==
    IF start >= stop THEN st
    ELSE IF stop = start + 1
    THEN IF RLe(st[1], Zero) THEN st
         ELSE AmortizationStep(start, st[1], st[2], monthly_payment, monthly_rate)
    ELSE Only({AmortizationLoop((start + stop) \div 2, stop, half, monthly_payment,
                                monthly_rate) :
                 half \in {AmortizationLoop(start, (start + stop) \div 2, st,
                                            monthly_payment, monthly_rate)}})

IMin(a, b) == IF a <= b THEN a ELSE b

\* get_amortization_schedule whose range stops one period early
get_amortization_schedule_OffByOne(self, num_periods) ==
    LET periods == IF num_periods = None THEN self.loan_term * 12 ELSE num_periods[1]
        loan_amount == get_loan_amount(self)
        monthly_payment == get_monthly_payment(self)
        monthly_rate == RDiv(RDiv(self.interest_rate, R(100)), R(12))
    IN  Only({AmortizationLoop(1, IMin(periods, self.loan_term * 12 + 1),
                               <<v[1], EmptySchedule>>, v[2], v[3])[2] :
                 v \in {<<loan_amount, monthly_payment, monthly_rate>>}})

\* num_periods is an integer or None
get_amortization_schedule(self, num_periods) ==
    LET periods == IF num_periods = None THEN self.loan_term * 12 ELSE num_periods[1]
        loan_amount == get_loan_amount(self)
        monthly_payment == get_monthly_payment(self)
        monthly_rate == RDiv(RDiv(self.interest_rate, R(100)), R(12))
    IN  Only({AmortizationLoop(1, IMin(periods + 1, self.loan_term * 12 + 1),
                               <<v[1], EmptySchedule>>, v[2], v[3])[2] :
                 v \in {<<loan_amount, monthly_payment, monthly_rate>>}})

(* ------------------------------------------------------------------ *)
(* Rent projection and cash flow                                       *)
(* ------------------------------------------------------------------ *)
get_effective_monthly_rent(self, rent_multiplier) ==
    Only({RMul(gross_rent, RDiv(self.occupancy_rate, R(100))) :
            gross_rent \in {RMul(self.base_monthly_rent, rent_multiplier)}})

\* _rent_growth_factor compounding from year 0
rent_growth_factor_FromZero(self, year) ==
    RPow(RAdd(R(1), RDiv(self.rent_growth, R(100))), year)

rent_growth_factor(self, year) ==
    RPow(RAdd(R(1), RDiv(self.rent_growth, R(100))), year - 1)

\* get_monthly_rent_for_year without the growth factor
get_monthly_rent_for_year_Flat(self, year, rent_multiplier) ==
    RMul(self.base_monthly_rent, rent_multiplier)

get_monthly_rent_for_year(self, year, rent_multiplier) ==
    Only({RMul(RMul(self.base_monthly_rent, factor), rent_multiplier) :
            factor \in {rent_growth_factor(self, year)}})

get_effective_monthly_rent_for_year(self, year, rent_multiplier) ==
    Only({RMul(gross, RDiv(self.occupancy_rate, R(100))) :
            gross \in {get_monthly_rent_for_year(self, year, rent_multiplier)}})

get_monthly_cash_flow_for_year(self, year, rent_multiplier) ==
    Only({RSub(RSub(effective_rent, monthly_payment), monthly_hoa) :
            effective_rent \in
                {get_effective_monthly_rent_for_year(self, year, rent_multiplier)},
            monthly_payment \in {get_monthly_payment(self)},
            monthly_hoa \in {RDiv(self.hoa_fees_annual, R(12))}})

get_annual_net_income_for_year(self, year, rent_multiplier) ==
    Only({RSub(RMul(effective_rent, R(12)), self.hoa_fees_annual) :
            effective_rent \in
                {get_effective_monthly_rent_for_year(self, year, rent_multiplier)}})

get_annual_cash_flow_for_year(self, year, rent_multiplier) ==
    Only({RMul(monthly, R(12)) :
            monthly \in {get_monthly_cash_flow_for_year(self, year, rent_multiplier)}})

\* The rent multipliers of get_scenario_analysis and the default 1.0
Conservative == Norm(85, 100)

Base == R(1)

Optimistic == Norm(115, 100)

RentMultipliers == {Conservative, Base, Optimistic}

(* ------------------------------------------------------------------ *)
(* Schedules over the holding period, ROI                              *)
(* ------------------------------------------------------------------ *)
\* The list a comprehension builds: every element computed once
List(f) == SubSeq(f, 1, Len(f))

\* get_net_income_schedule whose range stops one year early
get_net_income_schedule_Short(self, rent_multiplier) ==
    List([y \in 1 .. self.holding_period - 1 |->
            get_annual_net_income_for_year(self, y, rent_multiplier)])

\* range(1, holding_period + 1) is empty for holding_period < 1
get_net_income_schedule(self, rent_multiplier) ==
    List([y \in 1 .. self.holding_period |->
            get_annual_net_income_for_year(self, y, rent_multiplier)])

\* get_cash_flow_schedule repeating the first year's cash flow
get_cash_flow_schedule_YearOne(self, rent_multiplier) ==
    List([y \in 1 .. self.holding_period |->
            get_annual_cash_flow_for_year(self, 1, rent_multiplier)])

get_cash_flow_schedule(self, rent_multiplier) ==
    List([y \in 1 .. self.holding_period |->
            get_annual_cash_flow_for_year(self, y, rent_multiplier)])

\* sum(s) / len(s), for a non-empty s
Mean(s) == Only({RDiv(total, R(Len(s))) : total \in {RSum(s)}})

\* get_roi with the sign of the ratio lost
get_roi_Negated(self, rent_multiplier) ==
    Only({IF Len(cash_flows) = 0 THEN Zero
          ELSE IF RLe(total_investment, Zero) THEN Zero
          ELSE Only({RMul(RDiv(RNeg(avg_cash_flow), total_investment), R(100)) :
                       avg_cash_flow \in {Mean(cash_flows)}}) :
            cash_flows \in {get_cash_flow_schedule(self, rent_multiplier)},
            total_investment \in {get_total_initial_investment(self)}})

get_roi(self, rent_multiplier) ==
    Only({IF Len(cash_flows) = 0 THEN Zero
          ELSE IF RLe(total_investment, Zero) THEN Zero
          ELSE Only({RMul(RDiv(avg_cash_flow, total_investment), R(100)) :
                       avg_cash_flow \in {Mean(cash_flows)}}) :
            cash_flows \in {get_cash_flow_schedule(self, rent_multiplier)},
            total_investment \in {get_total_initial_investment(self)}})

(* ------------------------------------------------------------------ *)
(* IRR.  npf.irr is the root-finder of numpy_financial: what it returns *)
(* for a cash-flow vector is the library's choice, except that a vector *)
(* without a change of sign has no rate of return and gives NaN.        *)
(* ------------------------------------------------------------------ *)
Answer(kind, root) == [kind |-> kind, root |-> root]

NotCalled == Answer("not called", Zero)

NaN == Answer("nan", Zero)

\* A finite root, a finite root too large to be multiplied by 100, NaN,
\* an infinity, a complex root, None, or an exception
SolverAnswers ==
    {Answer("real", Norm(1, 10)), Answer("huge", Zero), NaN, Answer("inf", Zero),
     Answer("-inf", Zero), Answer("complex", Zero), Answer("none", Zero),
     Answer("raises", Zero)}

\* Without a solver there is nothing to answer
AnswersOf(solver) == IF solver = "absent" THEN {NotCalled} ELSE SolverAnswers

NoSignChange(values) ==
    \/ \A i \in 1 .. Len(values) : RLe(Zero, values[i])
    \/ \A i \in 1 .. Len(values) : RLe(values[i], Zero)

npf_irr(values, answer) == IF NoSignChange(values) THEN NaN ELSE answer

\* The vector without the initial investment
IrrCashFlows_NoInitial(self, rent_multiplier) ==
    Only({[cash_flows EXCEPT ![Len(cash_flows)] = RAdd(@, gain)] :
            cash_flows \in
                {List([y \in 1 .. self.holding_period |->
                         get_annual_cash_flow_for_year(self, y, rent_multiplier)])},
            gain \in {RSub(self.resale_value, self.property_price)}})

\* all_cash_flows of get_irr, for holding_period >= 1
IrrCashFlows(self, rent_multiplier) ==
    Only({<<initial_investment>>
              \o [cash_flows EXCEPT ![Len(cash_flows)] = RAdd(@, gain)] :
            initial_investment \in {RNeg(get_total_initial_investment(self))},
            cash_flows \in
                {List([y \in 1 .. self.holding_period |->
                         get_annual_cash_flow_for_year(self, y, rent_multiplier)])},
            gain \in {RSub(self.resale_value, self.property_price)}})

\* What get_irr makes of the solver's answer: a percentage, or None
IrrPercentage(irr) ==
    IF irr.kind = "none" THEN None
    ELSE IF irr.kind = "complex" THEN None   \* float(irr) raises TypeError
    ELSE IF irr.kind = "nan" THEN None
    ELSE IF irr.kind \in {"inf", "-inf"} THEN None
    ELSE IF irr.kind = "raises" THEN None
    ELSE IF irr.kind = "huge" THEN None      \* irr * 100 is infinite
    ELSE <<RMul(irr.root, R(100))>>

IrrResult(val, solved, answer) == [val |-> val, solved |-> solved, answer |-> answer]

\* get_irr calling the solver whether or not the module has one
get_irr_NoGuard(self, solver, rent_multiplier, answer) ==
    IF self.holding_period < 1 THEN IrrResult(None, None, NotCalled)
    ELSE Only({Only({IrrResult(IrrPercentage(irr), all_cash_flows, irr) :
                       irr \in {npf_irr(all_cash_flows, answer)}}) :
                 all_cash_flows \in {IrrCashFlows(self, rent_multiplier)}})

\* val is the value returned, solved the vector handed to npf.irr (None
\* when it was not called) and answer what npf.irr did.  With
\* holding_period < 1, cash_flows[-1] raises IndexError, which the except
\* clause turns into None.
get_irr(self, solver, rent_multiplier, answer) ==
    IF solver = "absent" THEN IrrResult(None, None, NotCalled)
    ELSE IF self.holding_period < 1 THEN IrrResult(None, None, NotCalled)
    ELSE Only({Only({IrrResult(IrrPercentage(irr), all_cash_flows, irr) :
                       irr \in {npf_irr(all_cash_flows, answer)}}) :
                 all_cash_flows \in {IrrCashFlows(self, rent_multiplier)}})

(* ------------------------------------------------------------------ *)
(* Scenario analysis and summary                                       *)
(* ------------------------------------------------------------------ *)
ScenarioKeys == {"conservative", "base", "optimistic"}

\* The multipliers exchanged between the outer scenarios
ScenarioMultiplier_Swapped(scenario_key) ==
    IF scenario_key = "conservative" THEN Optimistic
    ELSE IF scenario_key = "base" THEN Base
    ELSE Conservative

ScenarioMultiplier(scenario_key) ==
    IF scenario_key = "conservative" THEN Conservative
    ELSE IF scenario_key = "base" THEN Base
    ELSE Optimistic

\* The body of the loop of get_scenario_analysis for one scenario, for a
\* holding period of at least one year
\* <<the scenario's entry of results, what get_irr did>>
ScenarioResult(self, solver, multiplier, answer) ==
    Only({Only({<<[monthly_rent |-> monthly_rent,
                   effective_monthly_rent |-> effective_monthly_rent,
                   monthly_cash_flow |-> RDiv(avg_cash_flow, R(12)),
                   annual_net_income |-> avg_net_income,
                   annual_cash_flow |-> avg_cash_flow,
                   roi |-> roi,
                   irr |-> irr.val,
                   net_income_schedule |-> net_income_schedule,
                   cash_flow_schedule |-> cash_flow_schedule], irr>> :
                  avg_net_income \in {Mean(net_income_schedule)},
                  avg_cash_flow \in {Mean(cash_flow_schedule)},
                  roi \in {get_roi(self, multiplier)},
                  irr \in {get_irr(self, solver, multiplier, answer)}}) :
            monthly_rent \in {get_monthly_rent_for_year(self, 1, multiplier)},
            effective_monthly_rent \in
                {get_effective_monthly_rent_for_year(self, 1, multiplier)},
            net_income_schedule \in {get_net_income_schedule(self, multiplier)},
            cash_flow_schedule \in {get_cash_flow_schedule(self, multiplier)}})

Raised(exc) == [exc |-> exc, val |-> None, solved |-> None, answer |-> None]

\* With an empty schedule line 238 divides by len(net_income_schedule) = 0.
\* solved and answer are, per scenario, the vector get_irr handed to
\* npf.irr and what npf.irr did.
get_scenario_analysis(self, solver, answer) ==
    IF self.holding_period < 1 THEN Raised("ZeroDivisionError")
    ELSE Only({[exc |-> "",
                val |-> [k \in ScenarioKeys |-> results[k][1]],
                solved |-> [k \in ScenarioKeys |-> results[k][2].solved],
                answer |-> [k \in ScenarioKeys |-> results[k][2].answer]] :
                 results \in
                     {[conservative |->
                          ScenarioResult(self, solver,
                                         ScenarioMultiplier("conservative"), answer),
                       base |->
                          ScenarioResult(self, solver, ScenarioMultiplier("base"), answer),
                       optimistic |->
                          ScenarioResult(self, solver,
                                         ScenarioMultiplier("optimistic"), answer)]}})

\* get_investment_summary with `irr or 0`
get_investment_summary_IrrOrZero(self, solver, answer) ==
    Only({IF scenarios.exc # "" THEN scenarios
          ELSE LET base_scenario == scenarios.val["base"]
               IN [exc |-> "",
                  val |-> [property_price |-> self.property_price,
                           down_payment |-> self.down_payment,
                           loan_amount |-> get_loan_amount(self),
                           monthly_payment |-> get_monthly_payment(self),
                           total_interest |-> get_total_interest(self),
                           total_initial_investment |->
                               get_total_initial_investment(self),
                           base_monthly_rent |-> self.base_monthly_rent,
                           effective_monthly_rent |->
                               base_scenario.effective_monthly_rent,
                           monthly_cash_flow |-> base_scenario.monthly_cash_flow,
                           annual_cash_flow |-> base_scenario.annual_cash_flow,
                           roi |-> base_scenario.roi,
                           irr |-> IF base_scenario.irr = None THEN <<Zero>>
                                   ELSE base_scenario.irr,
                           holding_period |-> self.holding_period,
                           expected_resale_value |-> self.resale_value,
                           expected_capital_gain |->
                               RSub(self.resale_value, self.property_price)],
                  solved |-> scenarios.solved["base"],
                  answer |-> scenarios.answer["base"]] :
            scenarios \in {get_scenario_analysis(self, solver, answer)}})

get_investment_summary(self, solver, answer) ==
    Only({IF scenarios.exc # "" THEN scenarios
          ELSE LET base_scenario == scenarios.val["base"]
               IN [exc |-> "",
                  val |-> [property_price |-> self.property_price,
                           down_payment |-> self.down_payment,
                           loan_amount |-> get_loan_amount(self),
                           monthly_payment |-> get_monthly_payment(self),
                           total_interest |-> get_total_interest(self),
                           total_initial_investment |->
                               get_total_initial_investment(self),
                           base_monthly_rent |-> self.base_monthly_rent,
                           effective_monthly_rent |->
                               base_scenario.effective_monthly_rent,
                           monthly_cash_flow |-> base_scenario.monthly_cash_flow,
                           annual_cash_flow |-> base_scenario.annual_cash_flow,
                           roi |-> base_scenario.roi,
                           irr |-> base_scenario.irr,
                           holding_period |-> self.holding_period,
                           expected_resale_value |-> self.resale_value,
                           expected_capital_gain |->
                               RSub(self.resale_value, self.property_price)],
                  solved |-> scenarios.solved["base"],
                  answer |-> scenarios.answer["base"]] :
            scenarios \in {get_scenario_analysis(self, solver, answer)}})

(* ------------------------------------------------------------------ *)
(* utils.py                                                            *)
(* ------------------------------------------------------------------ *)
\* float('inf')
Inf == <<1, 0>>

\* calculate_debt_service_coverage_ratio without the infinite case
calculate_debt_service_coverage_ratio_NoInf(annual_net_income, annual_debt_service) ==
    IF RLe(annual_debt_service, Zero) THEN Zero
    ELSE RDiv(annual_net_income, annual_debt_service)

calculate_debt_service_coverage_ratio(annual_net_income, annual_debt_service) ==
    IF RLe(annual_debt_service, Zero)
    THEN IF RLt(Zero, annual_net_income) THEN Inf ELSE Zero
    ELSE RDiv(annual_net_income, annual_debt_service)

calculate_cap_rate(annual_net_income, property_price) ==
    IF RLe(property_price, Zero) THEN Zero
    ELSE RMul(RDiv(annual_net_income, property_price), R(100))

\* calculate_cash_on_cash_return as a fraction instead of a percentage
calculate_cash_on_cash_return_Fraction(annual_cash_flow, total_cash_invested) ==
    IF RLe(total_cash_invested, Zero) THEN Zero
    ELSE RDiv(annual_cash_flow, total_cash_invested)

calculate_cash_on_cash_return(annual_cash_flow, total_cash_invested) ==
    IF RLe(total_cash_invested, Zero) THEN Zero
    ELSE RMul(RDiv(annual_cash_flow, total_cash_invested), R(100))

calculate_payback_period(total_initial_investment, annual_cash_flow) ==
    IF RLe(annual_cash_flow, Zero) THEN R(999)
    ELSE RMin(RDiv(total_initial_investment, annual_cash_flow), R(999))

\* The scenario analysis runs first, so its ZeroDivisionError is the
\* outcome of the call for an empty schedule.
get_advanced_metrics(calculator, solver, answer) ==
    Only({IF scenarios.exc # "" THEN Raised(scenarios.exc)
          ELSE LET base_scenario == scenarios.val["base"]
                   annual_debt_service == RMul(get_monthly_payment(calculator), R(12))
                   annual_net_income == base_scenario.annual_net_income
                   annual_cash_flow == base_scenario.annual_cash_flow
                   total_initial_investment ==
                       get_total_initial_investment(calculator)
               IN [exc |-> "",
                  val |-> [dscr |->
                               calculate_debt_service_coverage_ratio(
                                   annual_net_income, annual_debt_service),
                           cash_on_cash_return |->
                               calculate_cash_on_cash_return(
                                   annual_cash_flow, total_initial_investment),
                           payback_period |->
                               calculate_payback_period(
                                   total_initial_investment, annual_cash_flow),
                           cap_rate |->
                               calculate_cap_rate(annual_net_income,
                                                  calculator.property_price),
                           annual_debt_service |-> annual_debt_service,
                           total_initial_investment |-> total_initial_investment],
                  solved |-> None,
                  answer |-> None] :
            scenarios \in {get_scenario_analysis(calculator, solver, answer)}})

\* The assessment so far, with one more risk factor and the given level
Flag(st, factor, level) ==
    [risk_level |-> level, risk_factors |-> Append(st.risk_factors, factor)]

\* Escalate that sets Medium whatever the level was
Escalate_Overwrites(st, factor) == Flag(st, factor, "Medium")

\* risk_factors.append(...); if risk_level == "Low": risk_level = "Medium"
Escalate(st, factor) ==
    Flag(st, factor, IF st.risk_level = "Low" THEN "Medium" ELSE st.risk_level)

CheckBaseCashFlow(st, base_scenario) ==
    IF RLt(base_scenario.monthly_cash_flow, Zero)
    THEN Flag(st, "Negative cash flow in base scenario", "High")
    ELSE IF RLt(base_scenario.monthly_cash_flow, R(200))
    THEN Escalate(st, "Low cash flow margin")
    ELSE st

CheckConservativeCashFlow(st, conservative_scenario) ==
    IF RLt(conservative_scenario.monthly_cash_flow, Zero)
    THEN Flag(st, "Negative cash flow in conservative scenario", "High")
    ELSE st

CheckRoi(st, base_scenario) ==
    IF RLt(base_scenario.roi, R(5))
    THEN Escalate(st, "Low ROI compared to market alternatives")
    ELSE st

CheckDownPayment(st, calculator) ==
    LET down_payment_ratio ==
            RMul(RDiv(calculator.down_payment, calculator.property_price), R(100))
    IN  IF RLt(down_payment_ratio, R(15))
        THEN Escalate(st, "Low down payment increases leverage risk")
        ELSE st

CheckOccupancy(st, calculator) ==
    IF RLt(calculator.occupancy_rate, R(90))
    THEN Escalate(st, "Low occupancy rate assumption increases vacancy risk")
    ELSE st

\* The assessment at the start and after each of the five checks
RiskChecks(calculator, scenarios) ==
    LET s0 == [risk_level |-> "Low", risk_factors |-> <<>>]
        s1 == CheckBaseCashFlow(s0, scenarios.base)
        s2 == CheckConservativeCashFlow(s1, scenarios.conservative)
        s3 == CheckRoi(s2, scenarios.base)
        s4 == CheckDownPayment(s3, calculator)
        s5 == CheckOccupancy(s4, calculator)
    IN  <<s0, s1, s2, s3, s4, s5>>

get_recommendations(calculator, scenarios, risk_level) ==
    LET base_scenario == scenarios.base
    IN  (IF risk_level = "High"
         THEN <<"Consider increasing down payment to improve cash flow",
                "Negotiate a lower purchase price or higher rental income",
                "Explore properties in different markets with better rent-to-price ratios">>
         ELSE <<>>)
        \o (IF RLt(base_scenario.roi, R(8))
            THEN <<"Compare with other investment options (stocks, bonds, REITs)">>
            ELSE <<>>)
        \o (IF RLt(calculator.occupancy_rate, R(95))
            THEN <<"Research local rental market to validate occupancy assumptions">>
            ELSE <<>>)
        \o (IF RLt(base_scenario.monthly_cash_flow, R(500))
            THEN <<"Build a larger cash reserve for unexpected expenses and vacancies">>
            ELSE <<>>)
        \o <<"Conduct thorough due diligence on the property and neighborhood",
             "Consider hiring a property management company if you lack experience",
             "Regularly review and adjust rent to market rates",
             "Maintain adequate insurance coverage for the property">>

get_risk_assessment(calculator, scenarios) ==
    Only({[risk_level |-> final.risk_level,
           risk_factors |-> final.risk_factors,
           recommendations |->
               get_recommendations(calculator, scenarios, final.risk_level)] :
            final \in {RiskChecks(calculator, scenarios)[6]}})

(* ------------------------------------------------------------------ *)
(* The engine's operations as actions.  The caller is sequential: it    *)
(* calls one operation on the instance, holds what it returned, and     *)
(* goes on to the next call.                                            *)
(* ------------------------------------------------------------------ *)
\* A call that leaves the engine with an emptied holding period
Returns_ResetsHoldingPeriod(op, a, v) ==
    /\ calc # NoInstance
    /\ ret = NoRet
    /\ \E r \in {v} : ret' = [op |-> op, arg |-> a, val |-> r]
    /\ calc' = [calc EXCEPT !.holding_period = 0]
    /\ UNCHANGED <<args, raised, npf>>

Returns(op, a, v) ==
    /\ calc # NoInstance
    /\ ret = NoRet
    /\ \E r \in {v} : ret' = [op |-> op, arg |-> a, val |-> r]
    /\ UNCHANGED <<args, calc, raised, npf>>

GetLoanAmount == Returns("get_loan_amount", <<>>, get_loan_amount(calc))

GetMonthlyPayment == Returns("get_monthly_payment", <<>>, get_monthly_payment(calc))

GetTotalInterest == Returns("get_total_interest", <<>>, get_total_interest(calc))

GetTotalPaybackAmount ==
    Returns("get_total_payback_amount", <<>>, get_total_payback_amount(calc))

GetTotalInitialInvestment ==
    Returns("get_total_initial_investment", <<>>, get_total_initial_investment(calc))

PeriodRequests ==
    {None} \cup {<<p>> : p \in (-1 .. 3) \cup {11, 12, 23, 24, 24 + ExtraPeriods}}

GetAmortizationSchedule ==
    \E p \in PeriodRequests :
        Returns("get_amortization_schedule", p, get_amortization_schedule(calc, p))

Years == 1 .. MaxYear

GetMonthlyRentForYear ==
    \E y \in Years, m \in RentMultipliers :
        Returns("get_monthly_rent_for_year", <<y, m>>,
                get_monthly_rent_for_year(calc, y, m))

GetEffectiveMonthlyRentForYear ==
    \E y \in Years, m \in RentMultipliers :
        Returns("get_effective_monthly_rent_for_year", <<y, m>>,
                get_effective_monthly_rent_for_year(calc, y, m))

GetMonthlyCashFlowForYear ==
    \E y \in Years, m \in RentMultipliers :
        Returns("get_monthly_cash_flow_for_year", <<y, m>>,
                get_monthly_cash_flow_for_year(calc, y, m))

GetAnnualNetIncomeForYear ==
    \E y \in Years, m \in RentMultipliers :
        Returns("get_annual_net_income_for_year", <<y, m>>,
                get_annual_net_income_for_year(calc, y, m))

GetAnnualCashFlowForYear ==
    \E y \in Years, m \in RentMultipliers :
        Returns("get_annual_cash_flow_for_year", <<y, m>>,
                get_annual_cash_flow_for_year(calc, y, m))

GetNetIncomeSchedule ==
    \E m \in RentMultipliers :
        Returns("get_net_income_schedule", <<m>>, get_net_income_schedule(calc, m))

GetCashFlowSchedule ==
    \E m \in RentMultipliers :
        Returns("get_cash_flow_schedule", <<m>>, get_cash_flow_schedule(calc, m))

GetRoi ==
    \E m \in RentMultipliers : Returns("get_roi", <<m>>, get_roi(calc, m))

\* An operation that may raise, and that may call the solver
Outcome(op, a, exc, val, solved, answer) ==
    /\ calc # NoInstance
    /\ ret = NoRet
    /\ \E r \in {<<val, solved, answer>>} :
          ret' = [op |-> op, arg |-> a, exc |-> exc,
                  val |-> r[1], solved |-> r[2], answer |-> r[3]]
    /\ UNCHANGED <<args, calc, raised, npf>>

GetIrr ==
    /\ calc # NoInstance
    /\ ret = NoRet
    /\ \E m \in RentMultipliers, o \in AnswersOf(npf) :
        \E r \in {get_irr(calc, npf, m, o)} :
            Outcome("get_irr", <<m>>, "", r.val, r.solved, r.answer)

GetScenarioAnalysis ==
    /\ calc # NoInstance
    /\ ret = NoRet
    /\ \E o \in AnswersOf(npf) :
        \E r \in {get_scenario_analysis(calc, npf, o)} :
            Outcome("get_scenario_analysis", <<>>, r.exc, r.val, r.solved, r.answer)

GetInvestmentSummary ==
    /\ calc # NoInstance
    /\ ret = NoRet
    /\ \E o \in AnswersOf(npf) :
        \E r \in {get_investment_summary(calc, npf, o)} :
            Outcome("get_investment_summary", <<>>, r.exc, r.val, r.solved, r.answer)

GetAdvancedMetrics ==
    /\ calc # NoInstance
    /\ ret = NoRet
    /\ \E o \in AnswersOf(npf) :
        \E r \in {get_advanced_metrics(calc, npf, o)} :
            Outcome("get_advanced_metrics", <<>>, r.exc, r.val, r.solved, r.answer)

\* The caller is done with the returned value
NextCall ==
    /\ ret # NoRet
    /\ ret' = NoRet
    /\ UNCHANGED <<args, calc, raised, npf>>

NewCalculator == \E a \in ConstructorCalls : Construct(a)

Init ==
    /\ args = NoArgs
    /\ calc = NoInstance
    /\ raised = ""
    /\ ret = NoRet
    /\ npf \in {"absent", "present"}

Next ==
    \/ NewCalculator
    \/ GetLoanAmount
    \/ GetMonthlyPayment
    \/ GetTotalInterest
    \/ GetTotalPaybackAmount
    \/ GetTotalInitialInvestment
    \/ GetAmortizationSchedule
    \/ GetMonthlyRentForYear
    \/ GetEffectiveMonthlyRentForYear
    \/ GetMonthlyCashFlowForYear
    \/ GetAnnualNetIncomeForYear
    \/ GetAnnualCashFlowForYear
    \/ GetNetIncomeSchedule
    \/ GetCashFlowSchedule
    \/ GetRoi
    \/ GetIrr
    \/ GetScenarioAnalysis
    \/ GetInvestmentSummary
    \/ GetAdvancedMetrics
    \/ NextCall

Spec == Init /\ [][Next]_vars

(* ------------------------------------------------------------------ *)
(* The functions of utils.py, each applied to arguments of its own: no  *)
(* engine is constructed.                                              *)
(* ------------------------------------------------------------------ *)
NetIncomes == {-12000, -6000, -1, 0, 1, 6000, 12000, 24000}

DebtServices == {-10000, -1, 0, 1, 5000, 10000, 20000}

Pending(fn, a) == [op |-> "call", fn |-> fn, arg |-> a]

\* The calculators and scenario results of an assessment: the fields
\* get_risk_assessment reads, on either side of each threshold. The
\* conservative rent is at most the base rent, and the ROI has the sign of
\* the cash flow or is 0 (no positive investment).
RiskCalculators ==
    {[property_price |-> R(100), down_payment |-> R(dp), occupancy_rate |-> R(oc)] :
        dp \in {0, 14, 15, 100}, oc \in {0, 89, 90, 100}}

RiskScenarios ==
    {[base |-> [monthly_cash_flow |-> R(t[1]), roi |-> Norm(t[3], 10)],
      conservative |-> [monthly_cash_flow |-> R(t[2])]] :
        t \in {u \in {-50, 0, 199, 200, 600} \X {-80, -50, 0, 170, 200, 510}
                       \X {-30, 0, 49, 50, 90} :
                  /\ u[2] <= u[1]
                  /\ u[1] < 0 => u[3] <= 0
                  /\ u[1] = 0 => u[3] = 0
                  /\ u[1] > 0 => u[3] >= 0}}

UtilInit ==
    /\ args = NoArgs
    /\ calc = NoInstance
    /\ raised = ""
    /\ npf \in {"absent", "present"}
    /\ \/ ret \in {Pending("calculate_debt_service_coverage_ratio", <<R(n), R(d)>>) :
                     n \in NetIncomes, d \in DebtServices}
       \/ ret \in {Pending("get_risk_assessment", <<calculator, scenarios>>) :
                     calculator \in RiskCalculators, scenarios \in RiskScenarios}

CalculateDebtServiceCoverageRatio ==
    /\ ret.op = "call"
    /\ ret.fn = "calculate_debt_service_coverage_ratio"
    /\ \E r \in {calculate_debt_service_coverage_ratio(ret.arg[1], ret.arg[2])} :
          ret' = [op |-> ret.fn, arg |-> ret.arg, val |-> r]
    /\ UNCHANGED <<args, calc, raised, npf>>

GetRiskAssessment ==
    /\ ret.op = "call"
    /\ ret.fn = "get_risk_assessment"
    /\ \E r \in {get_risk_assessment(ret.arg[1], ret.arg[2])} :
          ret' = [op |-> ret.fn, arg |-> ret.arg, val |-> r]
    /\ UNCHANGED <<args, calc, raised, npf>>

UtilNext ==
    \/ CalculateDebtServiceCoverageRatio
    \/ GetRiskAssessment

UtilSpec == UtilInit /\ [][UtilNext]_vars

(* ------------------------------------------------------------------ *)
(* Properties                                                          *)
(* ------------------------------------------------------------------ *)
Constructed == calc # NoInstance

Called == args # NoArgs

\* The seven input invariants, on the arguments as passed
ArgsValid(a) ==
    /\ a.property_price > 0
    /\ 0 <= a.down_payment /\ a.down_payment <= a.property_price
    /\ a.loan_term > 0
    /\ a.interest_rate >= 0
    /\ a.base_monthly_rent >= 0
    /\ 0 <= a.occupancy_rate /\ a.occupancy_rate <= 100
    /\ a.rent_growth >= 0

ValidationErrors ==
    {"Property price must be positive",
     "Down payment must be between 0 and property price",
     "Loan term must be positive",
     "Interest rate cannot be negative",
     "Monthly rent cannot be negative",
     "Occupancy rate must be between 0 and 100",
     "Rent growth cannot be negative"}

\* C1: a constructor call with the parameters of __init__ produces an engine
\* instance if and only if all seven input invariants hold; when one is
\* violated the call raises a validation error and produces no instance.
C1_ConstructionIffValid ==
    (Called /\ args.interest_type = "absent") =>
        /\ Constructed <=> ArgsValid(args)
        /\ Constructed => raised = ""
        /\ ~ArgsValid(args) => (~Constructed /\ raised \in ValidationErrors)

\* A call whose only violated invariant is the down payment's upper bound
\* was rejected.
C1_Witness ==
    /\ Called
    /\ args.interest_type = "absent"
    /\ args.property_price > 0
    /\ args.down_payment > args.property_price
    /\ args.loan_term > 0 /\ args.interest_rate >= 0 /\ args.base_monthly_rent >= 0
    /\ args.occupancy_rate \in 0 .. 100 /\ args.rent_growth >= 0
    /\ ~Constructed
    /\ raised = "Down payment must be between 0 and property price"

\* C2: get_loan_amount() is property_price - down_payment exactly, and lies
\* in 0 .. property_price.
C2_LoanAmount ==
    (Constructed /\ ret.op = "get_loan_amount") =>
        /\ ret.val = R(args.property_price - args.down_payment)
        /\ RLe(Zero, ret.val)
        /\ RLe(ret.val, R(args.property_price))

C2_Witness ==
    /\ Constructed
    /\ ret.op = "get_loan_amount"
    /\ RLt(Zero, ret.val)
    /\ RLt(ret.val, R(args.property_price))

\* The simple-interest payment: principal plus rate * years of interest on
\* it, spread over the months of the term.
SimpleInterestPayment(a) ==
    RDiv(RMul(R(a.property_price - a.down_payment),
              RAdd(R(1), RMul(Norm(a.interest_rate, 100), R(a.loan_term)))),
         R(a.loan_term * 12))

\* C3: the interest accrual mode is a construction parameter: a call with
\* valid inputs and the simple mode produces an engine, whose
\* get_monthly_payment() is the simple-interest payment.
C3_SimpleModeSelectable ==
    (Called /\ args.interest_type = "simple" /\ ArgsValid(args)) =>
        /\ Constructed
        /\ ret.op = "get_monthly_payment" => ret.val = SimpleInterestPayment(args)

LoanOf(a) == a.property_price - a.down_payment

NumPayments(a) == a.loan_term * 12

\* C4: get_monthly_payment() is 0 when the loan amount is <= 0, is
\* loan_amount / (loan_term * 12) when the interest rate is 0, so that the
\* payments then add up to the loan amount, and is never negative.
C4_PaymentEdgeCases ==
    (Constructed /\ ret.op = "get_monthly_payment") =>
        /\ LoanOf(args) <= 0 => ret.val = Zero
        /\ args.interest_rate = 0 =>
              /\ ret.val = Norm(LoanOf(args), NumPayments(args))
              /\ RMul(ret.val, R(NumPayments(args))) = R(LoanOf(args))
        /\ RLe(Zero, ret.val)

\* A zero-rate loan of a positive amount over more than one year
C4_Witness ==
    /\ Constructed
    /\ ret.op = "get_monthly_payment"
    /\ args.interest_rate = 0
    /\ args.loan_term > 1
    /\ LoanOf(args) > 0
    /\ RLt(Zero, ret.val)

\* The monthly rate and the growth of a unit of debt over the term, from
\* the arguments
MonthlyRate(a) == Norm(a.interest_rate, 1200)

TermGrowth(a) == RPow(Norm(1200 + a.interest_rate, 1200), NumPayments(a))

\* The value today of payments p at the end of each of the months 1 .. k,
\* discounted at the monthly rate
RECURSIVE PresentValue(_, _, _)
PresentValue(p, a, k) ==
    IF k = 0 THEN Zero
    ELSE Only({RDiv(RAdd(p, rest), Norm(1200 + a.interest_rate, 1200)) :
                 rest \in {PresentValue(p, a, k - 1)}})

\* C5: for a positive loan amount and a positive rate get_monthly_payment()
\* is the annuity payment L*r*(1+r)^n / ((1+r)^n - 1), r = rate/100/12,
\* n = loan_term*12: the payment whose n instalments are worth L today.
C5_AnnuityPayment ==
    (Constructed /\ ret.op = "get_monthly_payment"
       /\ LoanOf(args) > 0 /\ args.interest_rate > 0) =>
        /\ ret.val = RDiv(RMul(R(LoanOf(args)), RMul(MonthlyRate(args), TermGrowth(args))),
                          RSub(TermGrowth(args), R(1)))
        /\ PresentValue(ret.val, args, NumPayments(args)) = R(LoanOf(args))
        /\ RLt(RMul(R(LoanOf(args)), MonthlyRate(args)), ret.val)

C5_Witness ==
    /\ Constructed
    /\ ret.op = "get_monthly_payment"
    /\ LoanOf(args) > 0
    /\ args.interest_rate = 600
    /\ ret.val = Norm(4782969, 105469)

IsSchedule == Constructed /\ ret.op = "get_amortization_schedule"

\* The number of periods the caller asked for
Requested == IF ret.arg = None THEN NumPayments(args) ELSE ret.arg[1]

IMax(a, b) == IF a >= b THEN a ELSE b

\* C7: in every amortization schedule, for any requested period count, the
\* balances never increase from one entry to the next, none is negative,
\* the first is at most the loan amount, and the schedule ends at or
\* before period loan_term * 12.
C7_BalanceMonotone ==
    IsSchedule =>
        LET balance == ret.val.balance
        IN  /\ \A i \in 1 .. Len(balance) - 1 : RLe(balance[i + 1], balance[i])
            /\ \A i \in 1 .. Len(balance) : RLe(Zero, balance[i])
            /\ Len(balance) > 0 => RLe(balance[1], R(LoanOf(args)))
            /\ Len(balance) <= NumPayments(args)
            /\ \A i \in 1 .. Len(ret.val.period) : ret.val.period[i] <= NumPayments(args)

\* A schedule at a positive rate whose balance falls in every period
C7_Witness ==
    /\ IsSchedule
    /\ args.interest_rate > 0
    /\ Len(ret.val.balance) = NumPayments(args)
    /\ \A i \in 1 .. Len(ret.val.balance) - 1 :
          RLt(ret.val.balance[i + 1], ret.val.balance[i])

C9_SchedulePeriods ==
    IsSchedule =>
        LET period == ret.val.period
            balance == ret.val.balance
            k == IMin(IMax(Requested, 0), NumPayments(args))
        IN  /\ period = [i \in 1 .. Len(period) |-> i]
            /\ Len(balance) = Len(period)
            /\ Len(ret.val.payment) = Len(period)
            /\ Len(ret.val.principal) = Len(period)
            /\ Len(ret.val.interest) = Len(period)
            /\ Len(period) <= k
            /\ Len(period) < k =>
                  IF Len(period) = 0 THEN LoanOf(args) = 0
                  ELSE balance[Len(period)] = Zero
            /\ \A i \in 1 .. Len(period) - 1 : balance[i] # Zero
            /\ (LoanOf(args) = 0 \/ Requested <= 0) => Len(period) = 0

\* A schedule cut short by the requested count, and one by the loan's term
C9_Witness ==
    /\ IsSchedule
    /\ ret.arg = <<3>>
    /\ ret.val.period = <<1, 2, 3>>
    /\ ret.val.balance[3] # Zero

GrowthFactor(a, year) ==
    IF year = 1 THEN R(1) ELSE RPow(Norm(100 + a.rent_growth, 100), year - 1)

EffectiveRent(a, year, m) ==
    RMul(RMul(RMul(R(a.base_monthly_rent), GrowthFactor(a, year)), m),
         Norm(a.occupancy_rate, 100))

MonthlyCashFlow(a, year, m) ==
    RSub(RSub(EffectiveRent(a, year, m), get_monthly_payment(calc)),
         Norm(a.hoa_fees_annual, 12))

\* C10: for every year >= 1 and rent multiplier m, the effective monthly
\* rent is base * (1 + growth/100)^(year-1) * m * occupancy/100, with factor
\* 1 in year 1; the monthly cash flow is that rent - monthly payment -
\* hoa/12; the annual cash flow is 12 times it; the annual net income is
\* 12 * effective rent - hoa.
C10_RentAndCashFlow ==
    Constructed =>
        /\ ret.op = "get_effective_monthly_rent_for_year" =>
              /\ ret.val = EffectiveRent(args, ret.arg[1], ret.arg[2])
              /\ ret.arg[1] = 1 =>
                    ret.val = Norm(args.base_monthly_rent * ret.arg[2][1] * args.occupancy_rate,
                                   ret.arg[2][2] * 100)
        /\ ret.op = "get_monthly_cash_flow_for_year" =>
              ret.val = MonthlyCashFlow(args, ret.arg[1], ret.arg[2])
        /\ ret.op = "get_annual_cash_flow_for_year" =>
              ret.val = RMul(R(12), MonthlyCashFlow(args, ret.arg[1], ret.arg[2]))
        /\ ret.op = "get_annual_net_income_for_year" =>
              ret.val = RSub(RMul(R(12), EffectiveRent(args, ret.arg[1], ret.arg[2])),
                             R(args.hoa_fees_annual))

\* The annual cash flow of year 3 under growth, fees, a loan at interest and
\* the optimistic multiplier
C10_Witness ==
    /\ Constructed
    /\ ret.op = "get_annual_cash_flow_for_year"
    /\ ret.arg = <<3, Optimistic>>
    /\ args.rent_growth = 100
    /\ args.hoa_fees_annual = 24
    /\ args.occupancy_rate = 50
    /\ args.interest_rate > 0
    /\ LoanOf(args) > 0

NextYearRent == get_monthly_rent_for_year(calc, ret.arg[1] + 1, ret.arg[2])

\* C11 as stated: for every constructed engine and year >= 1, with growth
\* > 0 the monthly rent of year + 1 strictly exceeds that of the year, and
\* with growth = 0 the monthly rent is the same in all years.
C11_RentStrictlyGrows ==
    (Constructed /\ ret.op = "get_monthly_rent_for_year") =>
        /\ args.rent_growth > 0 => RLt(ret.val, NextYearRent)
        /\ args.rent_growth = 0 => ret.val = NextYearRent

\* C11 amended: with growth > 0 the monthly rent of year + 1 is at least
\* that of the year, strictly more when the base rent is positive and 0 in
\* every year when the base rent is 0; with growth = 0 it is the same in
\* all years.
C11_RentGrowsWithPositiveRent ==
    (Constructed /\ ret.op = "get_monthly_rent_for_year") =>
        /\ (args.rent_growth > 0 /\ args.base_monthly_rent > 0) =>
              RLt(ret.val, NextYearRent)
        /\ args.rent_growth > 0 => RLe(ret.val, NextYearRent)
        /\ args.base_monthly_rent = 0 => ret.val = Zero /\ NextYearRent = Zero
        /\ args.rent_growth = 0 => ret.val = NextYearRent

\* The rent of year 2 of an engine whose positive rent grows
C11_Witness ==
    /\ Constructed
    /\ ret.op = "get_monthly_rent_for_year"
    /\ ret.arg[1] = 2
    /\ args.rent_growth > 0
    /\ args.base_monthly_rent > 0
    /\ RLt(ret.val, NextYearRent)

\* The engine with the same arguments and no rent growth
FlatEngine == InitFields([args EXCEPT !.rent_growth = 0])

\* C12: of two engines that differ only in rent growth (g > 0 against 0),
\* with positive base rent and occupancy, the growth engine's cash flow
\* schedule equals the flat one's in year 1, strictly exceeds it in every
\* later year, and strictly increases from year to year.
C12_GrowthEscalatesCashFlow ==
    (/\ Constructed
     /\ ret.op = "get_cash_flow_schedule"
     /\ args.rent_growth > 0
     /\ args.base_monthly_rent > 0
     /\ args.occupancy_rate > 0) =>
        LET growth == ret.val
            flat == get_cash_flow_schedule(FlatEngine, ret.arg[1])
        IN  /\ Len(flat) = Len(growth)
            /\ Len(growth) >= 1 => growth[1] = flat[1]
            /\ \A y \in 2 .. Len(growth) : RLt(flat[y], growth[y])
            /\ \A y \in 1 .. Len(growth) - 1 : RLt(growth[y], growth[y + 1])

C12_Witness ==
    /\ Constructed
    /\ ret.op = "get_cash_flow_schedule"
    /\ args.rent_growth > 0
    /\ args.base_monthly_rent > 0
    /\ args.occupancy_rate > 0
    /\ Len(ret.val) = 3
    /\ RLt(get_cash_flow_schedule(FlatEngine, ret.arg[1])[3], ret.val[3])
    /\ RLt(ret.val[2], ret.val[3])

AnnualNetIncome(a, year, m) ==
    RSub(RMul(R(12), EffectiveRent(a, year, m)), R(a.hoa_fees_annual))

AnnualCashFlow(a, year, m) == RMul(R(12), MonthlyCashFlow(a, year, m))

\* C13: for every rent multiplier the net income and the cash flow schedule
\* have exactly holding_period entries each (so the same length), entry i
\* is the annual net income, respectively annual cash flow, of year i, and
\* no call changes the engine, so that a schedule asked for again is the
\* same sequence.
C13_Schedules ==
    /\ [](Constructed =>
            /\ ret.op = "get_net_income_schedule" =>
                  /\ Len(ret.val) = args.holding_period
                  /\ \A i \in 1 .. Len(ret.val) :
                        ret.val[i] = AnnualNetIncome(args, i, ret.arg[1])
            /\ ret.op = "get_cash_flow_schedule" =>
                  /\ Len(ret.val) = args.holding_period
                  /\ \A i \in 1 .. Len(ret.val) :
                        ret.val[i] = AnnualCashFlow(args, i, ret.arg[1])
            /\ (ret.op = "get_scenario_analysis" /\ ret.exc = "") =>
                  \A k \in DOMAIN ret.val :
                      /\ Len(ret.val[k].net_income_schedule) = args.holding_period
                      /\ Len(ret.val[k].cash_flow_schedule) = args.holding_period)
    /\ [][Constructed => calc' = calc /\ args' = args]_vars

C13_Witness ==
    /\ Constructed
    /\ ret.op = "get_net_income_schedule"
    /\ args.holding_period = 3
    /\ args.rent_growth > 0
    /\ args.hoa_fees_annual > 0
    /\ Len(ret.val) = 3
    /\ ret.val[1] # ret.val[3]

ScenarioReturned ==
    Constructed /\ ret.op = "get_scenario_analysis" /\ ret.exc = ""

\* The multiplier the claim gives each scenario
ClaimedMultiplier ==
    [conservative |-> Norm(85, 100), base |-> R(1), optimistic |-> Norm(115, 100)]

\* C14: get_scenario_analysis returns exactly the keys conservative, base
\* and optimistic, computed with the multipliers 0.85, 1.00 and 1.15: each
\* scenario's year-1 monthly rent is the base rent times its multiplier and
\* its schedules are the schedules for that multiplier.
C14_ThreeScenarios ==
    ScenarioReturned =>
        /\ DOMAIN ret.val = {"conservative", "base", "optimistic"}
        /\ \A k \in DOMAIN ret.val :
              LET m == ClaimedMultiplier[k]
                  scenario == ret.val[k]
              IN  /\ scenario.monthly_rent = RMul(R(args.base_monthly_rent), m)
                  /\ scenario.effective_monthly_rent = EffectiveRent(args, 1, m)
                  /\ Len(scenario.net_income_schedule) = args.holding_period
                  /\ Len(scenario.cash_flow_schedule) = args.holding_period
                  /\ \A i \in 1 .. args.holding_period :
                        /\ scenario.net_income_schedule[i] = AnnualNetIncome(args, i, m)
                        /\ scenario.cash_flow_schedule[i] = AnnualCashFlow(args, i, m)

\* A result whose three scenarios differ
C14_Witness ==
    /\ ScenarioReturned
    /\ args.holding_period = 2
    /\ RLt(ret.val["conservative"].monthly_rent, ret.val["base"].monthly_rent)
    /\ RLt(ret.val["base"].cash_flow_schedule[2],
           ret.val["optimistic"].cash_flow_schedule[2])

\* C15: the scenario ROIs are ordered conservative <= base <= optimistic:
\* get_roi does not decrease when the rent multiplier grows.
C15_RoiOrdered ==
    Constructed =>
        /\ ret.op = "get_roi" =>
              \A m \in RentMultipliers :
                  RLe(ret.arg[1], m) => RLe(ret.val, get_roi(calc, m))
        /\ ScenarioReturned =>
              /\ RLe(ret.val["conservative"].roi, ret.val["base"].roi)
              /\ RLe(ret.val["base"].roi, ret.val["optimistic"].roi)

\* Three ROIs in strictly increasing order, the first negative
C15_Witness ==
    /\ ScenarioReturned
    /\ RLt(ret.val["conservative"].roi, Zero)
    /\ RLt(ret.val["conservative"].roi, ret.val["base"].roi)
    /\ RLt(ret.val["base"].roi, ret.val["optimistic"].roi)

\* C16: for every constructed engine get_scenario_analysis returns a result
\* in which each scenario's average annual cash flow is the mean of its cash
\* flow schedule, the average monthly cash flow a twelfth of it, and the ROI
\* is average annual cash flow / total initial investment * 100 when that
\* investment is positive and the schedule not empty, and 0 when the
\* investment is <= 0 or the schedule is empty (holding period 0).
C16_AveragesAndRoi ==
    (Constructed /\ ret.op = "get_scenario_analysis") =>
        /\ ret.exc = ""
        /\ \A k \in DOMAIN ret.val :
              LET scenario == ret.val[k]
                  schedule == scenario.cash_flow_schedule
                  investment == args.down_payment + args.enhancement_costs
              IN  /\ Len(schedule) > 0 =>
                        /\ scenario.annual_cash_flow
                              = RDiv(RSum(schedule), R(Len(schedule)))
                        /\ scenario.monthly_cash_flow
                              = RDiv(scenario.annual_cash_flow, R(12))
                  /\ (investment > 0 /\ Len(schedule) > 0) =>
                        scenario.roi
                            = RMul(RDiv(scenario.annual_cash_flow, R(investment)),
                                   R(100))
                  /\ (investment <= 0 \/ Len(schedule) = 0) => scenario.roi = Zero

\* What the claim lets an IRR be, given what the solver did: absent, or
\* 100 times a finite real root
IrrAbsentOrRoot(irr, answer) ==
    \/ irr = None
    \/ answer.kind = "real" /\ irr = <<RMul(R(100), answer.root)>>

\* C17: the IRR computation never raises and never returns a degenerate
\* number: whatever the root-finder does, the IRR is absent or 100 times
\* the finite real root it returned; with degenerate cash flows (all zero,
\* or an empty schedule) the IRR is absent and the scenario computation
\* still completes.
C17_IrrNeverDegenerate ==
    Constructed =>
        /\ ret.op = "get_irr" =>
              /\ ret.exc = ""
              /\ IrrAbsentOrRoot(ret.val, ret.answer)
              /\ ret.answer.kind \in {"nan", "inf", "-inf", "complex", "none",
                                      "raises", "huge", "not called"} =>
                    ret.val = None
              /\ args.holding_period = 0 => ret.val = None
              /\ (ret.solved # None /\ \A i \in 1 .. Len(ret.solved) : ret.solved[i] = Zero)
                    => ret.val = None
        /\ ret.op \in {"get_scenario_analysis", "get_investment_summary"} =>
              ret.exc = ""
        /\ ScenarioReturned =>
              \A k \in DOMAIN ret.val :
                  IrrAbsentOrRoot(ret.val[k].irr, ret.answer[k])

Gain == RSub(calc.resale_value, calc.property_price)

\* The vector the claim describes for multiplier m
ClaimedVector(m) ==
    [i \in 1 .. args.holding_period + 1 |->
        IF i = 1 THEN R(-(args.down_payment + args.enhancement_costs))
        ELSE IF i <= args.holding_period THEN AnnualCashFlow(args, i - 1, m)
        ELSE RAdd(AnnualCashFlow(args, args.holding_period, m), Gain)]

\* C18: the vector handed to the IRR solver has holding_period + 1 entries:
\* minus the total initial investment, the annual cash flows of the years
\* before the last, and the last year's annual cash flow plus (resale value
\* - property price); the cash flow schedule reported in the same scenario
\* result keeps its last entry without the capital gain.
C18_IrrVector ==
    Constructed =>
        /\ (ret.op = "get_irr" /\ ret.solved # None) =>
              /\ Len(ret.solved) = args.holding_period + 1
              /\ \A i \in 1 .. Len(ret.solved) :
                    ret.solved[i] = ClaimedVector(ret.arg[1])[i]
        /\ ScenarioReturned =>
              \A k \in DOMAIN ret.val :
                  LET schedule == ret.val[k].cash_flow_schedule
                      last == args.holding_period
                      m == ClaimedMultiplier[k]
                  IN  /\ schedule[last] = AnnualCashFlow(args, last, m)
                      /\ ret.solved[k] # None =>
                            /\ Len(ret.solved[k]) = last + 1
                            /\ \A i \in 1 .. last + 1 :
                                  ret.solved[k][i] = ClaimedVector(m)[i]
                            /\ ret.solved[k][last + 1] = RAdd(schedule[last], Gain)

\* A vector of four entries handed to the solver, with a capital gain
C18_Witness ==
    /\ Constructed
    /\ ret.op = "get_irr"
    /\ ret.solved # None
    /\ Len(ret.solved) = 4
    /\ Gain # Zero
    /\ RLt(ret.solved[1], Zero)
    /\ ret.solved[4] # AnnualCashFlow(args, 3, ret.arg[1])
    /\ ret.answer.kind = "real"

\* A scenario result or a summary without its IRR
WithoutIrr(result) == [result EXCEPT !.irr = None]

\* C19: without a solver construction still succeeds, the IRR is absent
\* from get_irr, from every scenario and from the investment summary, and
\* every other field of the scenario results and of the summary is what it
\* is with a solver, whatever that solver answers.
C19_NoSolver ==
    npf = "absent" =>
        /\ (Called /\ args.interest_type = "absent" /\ ArgsValid(args)) => Constructed
        /\ (Constructed /\ ret.op = "get_irr") => ret.exc = "" /\ ret.val = None
        /\ (Constructed /\ ret.op = "get_scenario_analysis") =>
              \A o \in SolverAnswers :
                  LET with == get_scenario_analysis(calc, "present", o)
                  IN  /\ with.exc = ret.exc
                      /\ ret.exc = "" =>
                            \A k \in DOMAIN ret.val :
                                /\ ret.val[k].irr = None
                                /\ ret.val[k] = WithoutIrr(with.val[k])
        /\ (Constructed /\ ret.op = "get_investment_summary") =>
              \A o \in SolverAnswers :
                  LET with == get_investment_summary(calc, "present", o)
                  IN  /\ with.exc = ret.exc
                      /\ ret.exc = "" =>
                            /\ ret.val.irr = None
                            /\ ret.val = WithoutIrr(with.val)

\* A scenario analysis without a solver, on an engine for which a solver
\* would have been called and could have returned a root
C19_Witness ==
    /\ npf = "absent"
    /\ ScenarioReturned
    /\ ret.val["base"].irr = None
    /\ get_scenario_analysis(calc, "present", Answer("real", Norm(1, 10))).val["base"].irr
          = <<R(10)>>

\* C20: calculate_debt_service_coverage_ratio returns net income / debt
\* service when debt service > 0 (12000 and 10000 give exactly 1.2); when
\* debt service <= 0 it returns +infinity for a positive net income and 0
\* otherwise.
C20_DebtServiceCoverage ==
    ret.op = "calculate_debt_service_coverage_ratio" =>
        LET net_income == ret.arg[1][1]
            debt_service == ret.arg[2][1]
        IN  /\ debt_service > 0 =>
                  /\ ret.val[2] > 0
                  /\ ret.val[1] * debt_service = ret.val[2] * net_income
            /\ (net_income = 12000 /\ debt_service = 10000) => ret.val = Norm(12, 10)
            /\ (debt_service <= 0 /\ net_income > 0) => ret.val = Inf
            /\ (debt_service <= 0 /\ net_income <= 0) => ret.val = Zero

\* The example of test_dscr
C20_Witness ==
    /\ ret.op = "calculate_debt_service_coverage_ratio"
    /\ ret.arg = <<R(12000), R(10000)>>
    /\ ret.val = Norm(12, 10)

(* ------------------------------------------------------------------ *)
MetricsReturned ==
    Constructed /\ ret.op = "get_advanced_metrics" /\ ret.exc = ""

AnnualDebtService == RMul(get_monthly_payment(calc), R(12))

\* C21: in get_advanced_metrics the net income behind the DSCR and the cap
\* rate is the base scenario's annual net income of year 1, whatever the
\* holding period and the rent growth: with a positive debt service the
\* DSCR is that income / (monthly payment * 12), and the cap rate is that
\* income / property price * 100.
C21_YearOneNetIncome ==
    MetricsReturned =>
        LET year_one == AnnualNetIncome(args, 1, Base)
        IN  /\ RLt(Zero, AnnualDebtService) =>
                  ret.val.dscr = RDiv(year_one, AnnualDebtService)
            /\ ret.val.cap_rate
                  = RMul(RDiv(year_one, R(args.property_price)), R(100))

\* The base scenario's cash flow schedule, year by year
BaseCashFlows == [i \in 1 .. args.holding_period |-> AnnualCashFlow(args, i, Base)]

Investment == args.down_payment + args.enhancement_costs

\* The years at whose end the cumulative cash flow has reached the investment
RecoveredBy(schedule, investment) ==
    {k \in 1 .. Len(schedule) : RLe(investment, RSumRange(schedule, 1, k))}

\* The payback period of a schedule walked year by year
WalkedPayback(schedule, investment) ==
    LET reached == RecoveredBy(schedule, investment)
        n == Len(schedule)
    IN  IF reached # {}
        THEN LET k == CHOOSE y \in reached : \A z \in reached : y <= z
             IN  RAdd(R(k - 1),
                      RDiv(RSub(investment, RSumRange(schedule, 1, k - 1)),
                           schedule[k]))
        ELSE IF n > 0 /\ RLt(Zero, schedule[n])
        THEN RAdd(R(n), RDiv(RSub(investment, RSum(schedule)), schedule[n]))
        ELSE R(999)

\* C22: the payback period of get_advanced_metrics walks the base
\* scenario's cash flow schedule cumulatively: with k the first year whose
\* cumulative sum reaches the total initial investment it is (k - 1) plus
\* the fraction of year k's flow still needed; if the sum never reaches the
\* investment and the final flow is positive, it extrapolates with the
\* final year's flow (stated for a positive investment, capped at 999).
C22_PaybackWalksSchedule ==
    (MetricsReturned /\ Investment > 0) =>
        ret.val.payback_period
            = RMin(WalkedPayback(BaseCashFlows, R(Investment)), R(999))

\* C23: whenever the base cash flow schedule is empty or its final entry
\* is <= 0, get_advanced_metrics returns, and its payback period is the
\* sentinel 999.
C23_NoRecoverySentinel ==
    (/\ Constructed
     /\ ret.op = "get_advanced_metrics"
     /\ \/ args.holding_period = 0
        \/ RLe(BaseCashFlows[args.holding_period], Zero)) =>
        /\ ret.exc = ""
        /\ ret.val.payback_period = R(999)

\* C24: the payback period returned by get_advanced_metrics lies in
\* 0 .. 999: never negative, never above the ceiling, never infinite.
C24_PaybackInRange ==
    MetricsReturned =>
        /\ ret.val.payback_period[2] # 0
        /\ RLe(Zero, ret.val.payback_period)
        /\ RLe(ret.val.payback_period, R(999))

\* C25: the cash-on-cash return of get_advanced_metrics is the base
\* scenario's average annual cash flow / total initial investment * 100
\* when that investment is positive and 0 when it is <= 0, and it equals
\* the base scenario's ROI.
C25_CashOnCashIsRoi ==
    MetricsReturned =>
        /\ ret.val.cash_on_cash_return
              = IF Investment > 0
                THEN RMul(RDiv(Mean(BaseCashFlows), R(Investment)), R(100))
                ELSE Zero
        /\ ret.val.cash_on_cash_return = get_roi(calc, Base)

C25_Witness ==
    /\ MetricsReturned
    /\ Investment > 0
    /\ args.holding_period = 3
    /\ args.rent_growth > 0
    /\ BaseCashFlows[1] # BaseCashFlows[3]
    /\ RLt(Zero, ret.val.cash_on_cash_return)

\* C26 as claimed: the engine's resale value is the supplied value whenever
\* one was supplied, a supplied 0 included, and 1.2 * property price only
\* when none was supplied.
C26_SuppliedResaleKept ==
    Constructed =>
        calc.resale_value
            = IF args.resale_value # None THEN R(args.resale_value[1])
              ELSE RMul(Norm(12, 10), R(args.property_price))

\* The resale value of an engine whose constructor takes 0 for no value
ResaleOf(a) ==
    IF a.resale_value = None \/ a.resale_value[1] = 0
    THEN RMul(Norm(12, 10), R(a.property_price))
    ELSE R(a.resale_value[1])

GainOf(a) == RSub(ResaleOf(a), R(a.property_price))

\* C26: the engine's resale value is the supplied value whenever a value
\* other than 0 was supplied, and 1.2 * property price when none or 0 was
\* supplied; the capital gain added to the last entry of the vector handed
\* to the IRR solver and the expected capital gain of the investment
\* summary are that resale value - property price.
C26_ResaleValue ==
    Constructed =>
        /\ calc.resale_value = ResaleOf(args)
        /\ (ret.op = "get_irr" /\ ret.solved # None) =>
              ret.solved[Len(ret.solved)]
                  = RAdd(AnnualCashFlow(args, args.holding_period, ret.arg[1]),
                         GainOf(args))
        /\ (ret.op = "get_investment_summary" /\ ret.exc = "") =>
              /\ ret.val.expected_resale_value = ResaleOf(args)
              /\ ret.val.expected_capital_gain = GainOf(args)

\* A summary of an engine that was handed the resale value 0
C26_Witness ==
    /\ Constructed
    /\ args.resale_value = <<0>>
    /\ ret.op = "get_investment_summary"
    /\ ret.exc = ""
    /\ ret.val.expected_capital_gain = R(24)

\* The engine as the constructor left it
AsConstructed == InitFields(args)

\* C27: once constructed, the engine keeps the fields the constructor set:
\* no call of an engine operation or of get_advanced_metrics changes a
\* field, the constructor's arguments or the recorded error, however many
\* calls came before; hence what a call returns is what the operation
\* yields on the engine as constructed, the same each time.
C27_FrameEffect ==
    /\ [](Constructed =>
            /\ calc = AsConstructed
            /\ raised = ""
            /\ ret.op = "get_loan_amount" => ret.val = get_loan_amount(AsConstructed)
            /\ ret.op = "get_monthly_payment" =>
                  ret.val = get_monthly_payment(AsConstructed)
            /\ ret.op = "get_amortization_schedule" =>
                  ret.val = get_amortization_schedule(AsConstructed, ret.arg)
            /\ ret.op = "get_annual_cash_flow_for_year" =>
                  ret.val = get_annual_cash_flow_for_year(AsConstructed, ret.arg[1],
                                                         ret.arg[2])
            /\ ret.op = "get_cash_flow_schedule" =>
                  ret.val = get_cash_flow_schedule(AsConstructed, ret.arg[1])
            /\ ret.op = "get_roi" => ret.val = get_roi(AsConstructed, ret.arg[1])
            /\ (ret.op = "get_advanced_metrics" /\ ret.exc = "") =>
                  ret.val = get_advanced_metrics(AsConstructed, "absent", NotCalled).val)
    /\ [][Constructed => UNCHANGED <<args, calc, raised, npf>>]_vars

\* A second call on an engine, here of get_advanced_metrics
C27_Witness ==
    /\ MetricsReturned
    /\ calc = AsConstructed
    /\ args.resale_value # None
    /\ args.holding_period = MaxYear
    /\ ret.val.total_initial_investment = R(40)

SummaryReturned ==
    Constructed /\ ret.op = "get_investment_summary" /\ ret.exc = ""

\* The base scenario of a scenario analysis in which the solver did, for
\* the base vector, what it did for the summary
BaseOfAnalysis == get_scenario_analysis(calc, npf, ret.answer).val["base"]

\* C28: the investment summary agrees with the individual operations: its
\* loan amount, monthly payment, total interest and total initial
\* investment are those of the getters; its effective rent, cash flows,
\* ROI and IRR are those of the base scenario, the IRR absent exactly when
\* the base scenario's is (never 0 in its place); its expected capital gain
\* is resale value - property price.
C28_SummaryConsistent ==
    SummaryReturned =>
        \A base \in {BaseOfAnalysis} :
            /\ ret.val.loan_amount = R(LoanOf(args))
            /\ ret.val.loan_amount = get_loan_amount(calc)
            /\ ret.val.monthly_payment = get_monthly_payment(calc)
            /\ ret.val.total_interest = get_total_interest(calc)
            /\ ret.val.total_initial_investment = R(Investment)
            /\ ret.val.total_initial_investment = get_total_initial_investment(calc)
            /\ ret.val.effective_monthly_rent = EffectiveRent(args, 1, Base)
            /\ ret.val.effective_monthly_rent = base.effective_monthly_rent
            /\ ret.val.monthly_cash_flow = base.monthly_cash_flow
            /\ ret.val.annual_cash_flow = base.annual_cash_flow
            /\ ret.val.annual_cash_flow = Mean(BaseCashFlows)
            /\ ret.val.roi = base.roi
            /\ ret.val.roi = get_roi(calc, Base)
            /\ ret.val.irr = base.irr
            /\ (ret.val.irr = None) <=> (base.irr = None)
            /\ IrrAbsentOrRoot(ret.val.irr, ret.answer)
            /\ ret.val.expected_capital_gain
                  = RSub(calc.resale_value, calc.property_price)

\* A summary without an IRR although the solver was called
C28_Witness ==
    /\ SummaryReturned
    /\ ret.answer.kind = "nan"
    /\ ret.val.irr = None
    /\ args.holding_period = 2
    /\ args.rent_growth > 0
    /\ ret.val.roi # Zero

\* The balance an entry of the returned schedule started from
BalanceBefore(i) == IF i = 1 THEN R(LoanOf(args)) ELSE ret.val.balance[i - 1]

\* The entries that pay less than the recorded payment
CappedEntries ==
    {i \in 1 .. Len(ret.val.period) :
        RLt(RAdd(ret.val.principal[i], ret.val.interest[i]), ret.val.payment[i])}

\* C29: in every entry of an amortization schedule the interest is the
\* balance before the period * the monthly rate and >= 0, the principal is
\* >= 0 and at most the balance before the period, principal + interest is
\* at most the payment, with equality in every entry except at most one,
\* whose principal is the whole remaining balance, and the payment is the
\* engine's monthly payment in all entries.
C29_AmortizationEntries ==
    IsSchedule =>
        /\ \A i \in 1 .. Len(ret.val.period) :
              /\ ret.val.interest[i] = RMul(BalanceBefore(i), MonthlyRate(args))
              /\ RLe(Zero, ret.val.interest[i])
              /\ RLe(Zero, ret.val.principal[i])
              /\ RLe(ret.val.principal[i], BalanceBefore(i))
              /\ RLe(RAdd(ret.val.principal[i], ret.val.interest[i]),
                     ret.val.payment[i])
              /\ ret.val.payment[i] = get_monthly_payment(calc)
              /\ ret.val.payment[i] = ret.val.payment[1]
        /\ Cardinality(CappedEntries) <= 1
        /\ \A i \in CappedEntries : ret.val.principal[i] = BalanceBefore(i)

\* A complete schedule of one year at a positive rate
C29_Witness ==
    /\ IsSchedule
    /\ args.interest_rate > 0
    /\ Len(ret.val.period) = 12
    /\ RLt(Zero, ret.val.interest[12])
    /\ RLt(ret.val.interest[12], ret.val.interest[1])
    /\ ret.val.principal[12] = BalanceBefore(12)
    /\ ret.val.balance[12] = Zero

(* ------------------------------------------------------------------ *)
RiskReturned == ret.op = "get_risk_assessment"

Rank(level) == CASE level = "Low" -> 1 [] level = "Medium" -> 2 [] level = "High" -> 3

\* C30: in get_risk_assessment the risk level only escalates from check to
\* check (Low, then Medium, then High, never back); the level returned is
\* High exactly when the monthly cash flow of the base or of the
\* conservative scenario is negative, and Low exactly when the list of
\* risk factors is empty.
C30_RiskEscalates ==
    RiskReturned =>
        LET checks == RiskChecks(ret.arg[1], ret.arg[2])
            scenarios == ret.arg[2]
        IN  /\ \A i \in 1 .. Len(checks) - 1 :
                  Rank(checks[i + 1].risk_level) >= Rank(checks[i].risk_level)
            /\ ret.val.risk_level = checks[Len(checks)].risk_level
            /\ ret.val.risk_level = "High" <=>
                  \/ RLt(scenarios.base.monthly_cash_flow, Zero)
                  \/ RLt(scenarios.conservative.monthly_cash_flow, Zero)
            /\ ret.val.risk_level = "Low" <=> ret.val.risk_factors = <<>>

\* High from the conservative scenario alone, kept through the later checks
C30_Witness ==
    /\ RiskReturned
    /\ ret.val.risk_level = "High"
    /\ ~RLt(ret.arg[2].base.monthly_cash_flow, Zero)
    /\ Len(ret.val.risk_factors) = 5

====
